---- MODULE Spec2Model ----
(***************************************************************************)
(* Model of the retrieval-augmented generation core of the AI service:     *)
(*   - FAISSVectorStore (src/src/models/vector_store.py)                   *)
(*   - MultiLLMClient   (src/src/models/multi_llm_client.py)               *)
(*   - InMemoryVectorStore (src/src/models/vector_store.py)                *)
(*   - RAGService's generation calls (src/src/services/rag_service.py)     *)
(*                                                                         *)
(* Spec          : the vector store used by concurrent asyncio tasks.      *)
(* SpecValidAdds : the same, with well-formed batches and no I/O failure.  *)
(* SpecPersist   : one caller adding to and deleting from a FAISS store     *)
(*                 whose writes can fail and whose process can restart.    *)
(* SpecPair      : one caller making the same add, search and delete calls *)
(*                 on a FAISS store and on an in-memory store.             *)
(* SpecLLM       : generate_text calls on a MultiLLMClient.                *)
(* SpecRAG       : RAGService calls that generate text.                    *)
(* SpecRewrite   : RAGService.rewrite_content and the text it returns.     *)
(* SpecLLMLive   : SpecLLM with providers that can stay silent, under      *)
(*                 fairness of the steps that end an upstream request.     *)
(* SpecCtor      : MultiLLMClient() under every configuration.             *)
(* SpecCompetitor: analyze_competitors (competitor_service.py) and         *)
(*                 run_analysis (pipelines/competitor_analysis.py).        *)
(* SpecGlobal    : concurrent callers of get_vector_store.                 *)
(***************************************************************************)
EXTENDS Integers, Sequences, FiniteSets, TLC

VARIABLES
    index,        \* FAISSVectorStore.index: the IndexFlatIP ([open, xb])
    documents,    \* FAISSVectorStore.documents: slot -> Document
    id_mapping,   \* FAISSVectorStore.id_mapping: external id -> slot
    next_id,      \* FAISSVectorStore.next_id
    diskIndex,    \* the file "<index_path>.index"
    diskMeta,     \* the file "<index_path>.metadata.json"
    pc,           \* position of each task's add_documents coroutine
    arr,          \* embeddings_array handed to the worker thread
    err,          \* the exception each task's add_documents call raised
    cur,          \* the documents argument of each add_documents call in progress
    res,          \* outcome of the last search / delete_document on the FAISS store
    boot,         \* outcome of the last FAISSVectorStore.initialize at start-up
    memDocs,      \* InMemoryVectorStore.documents
    memRes,       \* outcome of the last call on the in-memory store
    llm,          \* the MultiLLMClient instance (fields set by __init__)
    keys,         \* settings.openai_api_key / settings.gemini_api_key present
    upstream,     \* how each provider's service answers a request
    call,         \* the generate_text call in progress
    events,       \* adapter invocations of the current call, in order
    rag,          \* the RAGService call in progress
    rw,           \* the RAGService.rewrite_content call in progress
    ctor,         \* the settings and the outcome of MultiLLMClient()
    comp,         \* the competitor analysis call in progress
    gvs           \* the module global _vector_store and its callers

opVars == <<res, boot>>
memVars == <<memDocs, memRes>>
storeVars == <<index, documents, id_mapping, next_id, diskIndex, diskMeta,
               pc, arr, err, cur, res, boot, memDocs, memRes>>
llmVars == <<llm, keys, upstream, call, events, rag>>
svcVars == <<rw, ctor, comp, gvs>>
vars == <<index, documents, id_mapping, next_id, diskIndex, diskMeta,
          pc, arr, err, cur, res, boot, memDocs, memRes,
          llm, keys, upstream, call, events, rag,
          rw, ctor, comp, gvs>>

----------------------------------------------------------------------------
(* Bounds *)

MaxBatch == 2      \* longest documents list passed to add_documents
MaxSlots == 3      \* add_documents calls stop once next_id would exceed this

Tasks == {"t1", "t2"}

----------------------------------------------------------------------------
(* Documents and embeddings *)

\* Optional[List[float]]
None == [some |-> FALSE, v |-> <<>>]
Some(v) == [some |-> TRUE, v |-> v]

\* Document (content and metadata are opaque to the store and left out)
Document(id, embedding) == [id |-> id, embedding |-> embedding]

\* FAISSVectorStore.dimension
Dimension == 2

DocPool ==
    { Document("a", Some(<<1, 0>>)),
      Document("b", Some(<<0, 2>>)),
      Document("c", None),
      Document("d", Some(<<1>>)) }

Batches == UNION { [1..n -> DocPool] : n \in 0..MaxBatch }

RECURSIVE Gcd(_, _)
Gcd(a, b) == IF b = 0 THEN a ELSE Gcd(b, a % b)

RECURSIVE GcdSeq(_)
GcdSeq(v) == IF v = <<>> THEN 0 ELSE Gcd(Head(v), GcdSeq(Tail(v)))

\* embedding / np.linalg.norm(embedding): the unit vector of the same
\* direction, written as the primitive integer vector of that direction;
\* a zero vector divides by zero and yields NaN components.
Normalize(v) ==
    LET g == GcdSeq(v)
    IN  IF g = 0 THEN [nan |-> TRUE, dir |-> v]
        ELSE [nan |-> FALSE, dir |-> [i \in 1..Len(v) |-> v[i] \div g]]

----------------------------------------------------------------------------
(* FAISSVectorStore.add_documents *)

\* the for loop of add_documents: documents are processed in order, each
\* one stored under the next internal id, until one has no embedding
RECURSIVE AddLoop(_, _)
AddLoop(st, docs) ==
    IF docs = <<>> THEN st
    ELSE LET doc == Head(docs)
         IN  IF ~doc.embedding.some
             THEN [st EXCEPT !.raised = TRUE]
             ELSE AddLoop(
                    [ embeddings |-> Append(st.embeddings, Normalize(doc.embedding.v)),
                      documents  |-> (st.next_id :> doc) @@ st.documents,
                      id_mapping |-> (doc.id :> st.next_id) @@ st.id_mapping,
                      next_id    |-> st.next_id + 1,
                      raised     |-> FALSE ],
                    Tail(docs))

\* np.vstack(embeddings) raises on an empty list and on rows of unequal length
VstackRaises(embeddings) ==
    \/ embeddings = <<>>
    \/ \E i, j \in 1..Len(embeddings) : Len(embeddings[i].dir) # Len(embeddings[j].dir)

\* Index.add without the shape assertion
FaissAdd_NoAssert(xb, x) == [ok |-> TRUE, xb |-> xb \o x]

\* faiss Index.add(x): asserts x.shape[1] == self.d, then appends the rows
FaissAdd(xb, x) ==
    IF Len(x[1].dir) # Dimension
    THEN [ok |-> FALSE, xb |-> xb]
    ELSE [ok |-> TRUE, xb |-> xb \o x]

\* FAISSVectorStore.initialize, on a store with no persisted index file:
\* a new empty IndexFlatIP
EmptyIndex == [open |-> TRUE, xb |-> <<>>]

\* the cause carried by the VectorDatabaseError that add_documents raises
\* ("Failed to add documents: <cause>"); NoError while none was raised
NoError == "none"

\* the outcome of a store call: raised, or the SearchResult list of search,
\* or the bool of delete_document
Outcome(op, q, k, id, raised, results, deleted) ==
    [ op |-> op, q |-> q, k |-> k, id |-> id,
      raised |-> raised, results |-> results, deleted |-> deleted ]

\* no call has returned yet
NoResult == Outcome("none", <<>>, 0, "", FALSE, <<>>, FALSE)

\* add_documents up to its first suspension (await asyncio.to_thread)
add_documents(t, docs) ==
    /\ pc[t] \in {"idle", "returned", "raised"}
    /\ next_id + Len(docs) <= MaxSlots
    /\ Len(index.xb) + Len(docs) <= MaxSlots
    /\ LET st == AddLoop([ embeddings |-> <<>>, documents |-> documents,
                           id_mapping |-> id_mapping, next_id |-> next_id,
                           raised |-> FALSE ], docs)
           e == IF st.raised THEN "no embedding"
                ELSE IF VstackRaises(st.embeddings) THEN "vstack"
                ELSE NoError
           fails == e # NoError
       IN  /\ index' = IF index.open THEN index ELSE EmptyIndex
           /\ documents' = st.documents
           /\ id_mapping' = st.id_mapping
           /\ next_id' = st.next_id
           /\ pc' = [pc EXCEPT ![t] = IF fails THEN "raised" ELSE "await_add"]
           /\ arr' = [arr EXCEPT ![t] = IF fails THEN <<>> ELSE st.embeddings]
           /\ err' = [err EXCEPT ![t] = e]
           /\ cur' = [cur EXCEPT ![t] = IF fails THEN <<>> ELSE docs]
    /\ UNCHANGED <<diskIndex, diskMeta, boot>>

\* an add_documents call on the FAISS store alone
AddDocuments(t, docs) ==
    /\ add_documents(t, docs)
    /\ res' = NoResult
    /\ UNCHANGED memVars
    /\ UNCHANGED llmVars /\ UNCHANGED svcVars

\* the worker thread runs self.index.add(embeddings_array); on success the
\* coroutine goes on to _save_index and suspends in to_thread(write_index)
IndexAddThread(t) ==
    /\ pc[t] = "await_add"
    /\ LET r == FaissAdd(index.xb, arr[t])
       IN  /\ index' = [index EXCEPT !.xb = r.xb]
           /\ pc' = [pc EXCEPT ![t] = IF r.ok THEN "await_write" ELSE "raised"]
           /\ err' = [err EXCEPT ![t] = IF r.ok THEN NoError ELSE "index.add assert"]
           /\ cur' = [cur EXCEPT ![t] = IF r.ok THEN cur[t] ELSE <<>>]
    /\ arr' = [arr EXCEPT ![t] = <<>>]
    /\ UNCHANGED <<documents, id_mapping, next_id, diskIndex, diskMeta>>
    /\ UNCHANGED opVars
    /\ UNCHANGED memVars
    /\ UNCHANGED llmVars /\ UNCHANGED svcVars

----------------------------------------------------------------------------
(* FAISSVectorStore._save_index *)

Digits == <<"0", "1", "2", "3", "4", "5", "6", "7", "8", "9">>

\* str(k) for a non-negative int
RECURSIVE Str(_)
Str(k) == IF k < 10 THEN Digits[k + 1] ELSE Str(k \div 10) \o Digits[(k % 10) + 1]

\* the metadata dict written by json.dump
Metadata ==
    [ documents  |-> { <<Str(k), documents[k]>> : k \in DOMAIN documents },
      id_mapping |-> id_mapping,
      next_id    |-> next_id,
      dimension  |-> Dimension ]

NoFile == [state |-> "absent"]

\* the worker thread runs faiss.write_index(self.index, path)
WriteIndexThread(t) ==
    /\ pc[t] = "await_write"
    /\ diskIndex' = [state |-> "ok", xb |-> index.xb]
    /\ pc' = [pc EXCEPT ![t] = "write_done"]
    /\ UNCHANGED <<index, documents, id_mapping, next_id, diskMeta, arr, err, cur>>
    /\ UNCHANGED opVars
    /\ UNCHANGED memVars
    /\ UNCHANGED llmVars /\ UNCHANGED svcVars

\* faiss.write_index fails (I/O error): the file is left as it was or
\* truncated; _save_index and add_documents re-raise VectorDatabaseError
WriteIndexThreadFails(t) ==
    /\ pc[t] = "await_write"
    /\ diskIndex' \in {diskIndex, [state |-> "corrupt"]}
    /\ pc' = [pc EXCEPT ![t] = "raised"]
    /\ err' = [err EXCEPT ![t] = "save index"]
    /\ cur' = [cur EXCEPT ![t] = <<>>]
    /\ UNCHANGED <<index, documents, id_mapping, next_id, diskMeta, arr>>
    /\ UNCHANGED opVars
    /\ UNCHANGED memVars
    /\ UNCHANGED llmVars /\ UNCHANGED svcVars

\* the coroutine resumes, builds the metadata dict and writes the side file
SaveMetadata(t) ==
    /\ pc[t] = "write_done"
    /\ diskMeta' = [state |-> "ok", json |-> Metadata]
    /\ pc' = [pc EXCEPT ![t] = "returned"]
    /\ cur' = [cur EXCEPT ![t] = <<>>]
    /\ UNCHANGED <<index, documents, id_mapping, next_id, diskIndex, arr, err>>
    /\ UNCHANGED opVars
    /\ UNCHANGED memVars
    /\ UNCHANGED llmVars /\ UNCHANGED svcVars

\* open(..., "w") or json.dump fails: the side file is left as it was or
\* truncated; _save_index and add_documents re-raise VectorDatabaseError
SaveMetadataFails(t) ==
    /\ pc[t] = "write_done"
    /\ diskMeta' \in {diskMeta, [state |-> "corrupt"]}
    /\ pc' = [pc EXCEPT ![t] = "raised"]
    /\ err' = [err EXCEPT ![t] = "save index"]
    /\ cur' = [cur EXCEPT ![t] = <<>>]
    /\ UNCHANGED <<index, documents, id_mapping, next_id, diskIndex, arr>>
    /\ UNCHANGED opVars
    /\ UNCHANGED memVars
    /\ UNCHANGED llmVars /\ UNCHANGED svcVars

\* FAISSVectorStore.get_document_count
get_document_count == IF ~index.open THEN 0 ELSE Len(index.xb)

----------------------------------------------------------------------------
(* FAISSVectorStore.search and delete_document *)

MaxK == MaxSlots + 1     \* largest k passed to search

QueryPool == { <<1, 0>>, <<2, 1>>, <<0, 0>>, <<1>> }

KValues == {1, MaxK}

Min(a, b) == IF a < b THEN a ELSE b

RECURSIVE Dot(_, _)
Dot(u, v) == IF u = <<>> THEN 0 ELSE Head(u) * Head(v) + Dot(Tail(u), Tail(v))

\* a float score: NaN, or the cosine c of two integer vectors, kept exactly
\* as its sign and the reduced fraction n/d = c * c
NaN == [nan |-> TRUE, sgn |-> 0, n |-> 0, d |-> 1]

Cosine(u, v) ==
    LET p == Dot(u, v)
        q == Dot(u, u) * Dot(v, v)
        g == Gcd(p * p, q)
    IN  [ nan |-> FALSE,
          sgn |-> IF p > 0 THEN 1 ELSE IF p < 0 THEN -1 ELSE 0,
          n   |-> (p * p) \div g,
          d   |-> q \div g ]

\* a > b on float scores (false when either is NaN)
Greater(a, b) == ~a.nan /\ ~b.nan /\ a.sgn * a.n * b.d > b.sgn * b.n * a.d

\* the inner product of two normalised vectors
InnerProduct(x, y) == IF x.nan \/ y.nan THEN NaN ELSE Cosine(x.dir, y.dir)

\* IndexFlatIP.search(x, k) through the faiss Python wrapper: it asserts
\* x.shape[1] == self.d and k > 0, then returns the k best rows by inner
\* product in descending order (equal scores: lower label first).  A row
\* whose score is NaN never enters the result heap; the entries left over
\* carry label -1, which search drops, so they are left out here.
IndexSearch(xb, x, k) ==
    IF Len(x.dir) # Dimension \/ k <= 0
    THEN [ok |-> FALSE, hits |-> <<>>]
    ELSE LET score(i) == InnerProduct(xb[i], x)
             valid == { i \in 1..Len(xb) : ~score(i).nan }
             before(j, i) == \/ Greater(score(j), score(i))
                             \/ score(j) = score(i) /\ j < i
             place(i) == 1 + Cardinality({ j \in valid : before(j, i) })
         IN  [ ok |-> TRUE,
               hits |-> [ r \in 1..Min(k, Cardinality(valid)) |->
                            LET i == CHOOSE i \in valid : place(i) = r
                            IN  [idx |-> i - 1, score |-> score(i)] ] ]

SearchResult(document, score) == [document |-> document, score |-> score]

\* the conversion loop of search: hits whose label is a key of
\* self.documents become SearchResults, the others are skipped
RECURSIVE ConvertResults(_, _)
ConvertResults(hits, docs) ==
    IF hits = <<>> THEN <<>>
    ELSE LET rest == ConvertResults(Tail(hits), docs)
             h == Head(hits)
         IN  IF h.idx \in DOMAIN docs
             THEN <<SearchResult(docs[h.idx], h.score)>> \o rest
             ELSE rest

\* the try block of FAISSVectorStore.search on index vectors xb and slot
\* map docs; any exception is re-raised as VectorDatabaseError
FaissSearch(xb, docs, q, k) ==
    LET r == IndexSearch(xb, Normalize(q), Min(k, Len(xb)))
    IN  IF r.ok
        THEN [raised |-> FALSE, results |-> ConvertResults(r.hits, docs)]
        ELSE [raised |-> TRUE, results |-> <<>>]

\* FAISSVectorStore.search (it initializes a store that has no index yet)
search(q, k) ==
    /\ LET ix == IF index.open THEN index ELSE EmptyIndex
           r == FaissSearch(ix.xb, documents, q, k)
       IN  /\ index' = ix
           /\ res' = Outcome("search", q, k, "", r.raised, r.results, FALSE)
    /\ UNCHANGED <<documents, id_mapping, next_id, diskIndex, diskMeta,
                   pc, arr, err, cur, boot>>

\* a delete_document that drops the document's slot and reports it
delete_document_Removes(id) ==
    /\ res' = Outcome("delete", <<>>, 0, id, FALSE, <<>>, id \in DOMAIN id_mapping)
    /\ documents' = [ slot \in { n \in DOMAIN documents : documents[n].id # id } |->
                        documents[slot] ]
    /\ UNCHANGED <<index, id_mapping, next_id, diskIndex, diskMeta,
                   pc, arr, err, cur, boot>>

\* FAISSVectorStore.delete_document: logs a warning and returns False
delete_document(id) ==
    /\ res' = Outcome("delete", <<>>, 0, id, FALSE, <<>>, FALSE)
    /\ UNCHANGED <<index, documents, id_mapping, next_id, diskIndex, diskMeta,
                   pc, arr, err, cur, boot>>

----------------------------------------------------------------------------
(* InMemoryVectorStore *)

\* the caller of SpecPersist and SpecPair
Caller == "t1"

\* the caller has no add_documents call in progress
CallerIdle == pc[Caller] \in {"idle", "returned", "raised"}

\* ids passed to delete_document
DocIds == {"a", "b"}

\* a delete_document call on the FAISS store alone, made by the caller
\* between its add_documents calls
DeleteDocument(id) ==
    /\ CallerIdle
    /\ delete_document(id)
    /\ UNCHANGED memVars
    /\ UNCHANGED llmVars /\ UNCHANGED svcVars

\* InMemoryVectorStore.add_documents: self.documents.extend(documents)
mem_add_documents(docs) ==
    /\ memDocs' = memDocs \o docs
    /\ memRes' = Outcome("add", <<>>, 0, "", FALSE, <<>>, FALSE)

\* `if doc.embedding` and `doc_norm > 0`
Scorable(doc) == doc.embedding.some /\ GcdSeq(doc.embedding.v) # 0

\* the body of InMemoryVectorStore.search: every document with a non-zero
\* embedding is scored by cosine similarity (np.dot raises on operands of
\* unequal length), the list is sorted by descending score (a stable
\* sort) and cut to its first k entries
MemSearch(docs, q, k) ==
    LET scored == IF GcdSeq(q) = 0 THEN {}
                  ELSE { i \in 1..Len(docs) : Scorable(docs[i]) }
        score(i) == Cosine(q, docs[i].embedding.v)
        before(j, i) == \/ Greater(score(j), score(i))
                        \/ score(j) = score(i) /\ j < i
        place(i) == 1 + Cardinality({ j \in scored : before(j, i) })
    IN  IF \E i \in scored : Len(docs[i].embedding.v) # Len(q)
        THEN [raised |-> TRUE, results |-> <<>>]
        ELSE [ raised |-> FALSE,
               results |-> [ r \in 1..Min(k, Cardinality(scored)) |->
                               LET i == CHOOSE i \in scored : place(i) = r
                               IN  SearchResult(docs[i], score(i)) ] ]

mem_search(q, k) ==
    /\ LET r == MemSearch(memDocs, q, k)
       IN  memRes' = Outcome("search", q, k, "", r.raised, r.results, FALSE)
    /\ UNCHANGED memDocs

\* SelectSeq(docs, doc.id # id)
RECURSIVE Without(_, _)
Without(docs, id) ==
    IF docs = <<>> THEN <<>>
    ELSE IF Head(docs).id = id THEN Without(Tail(docs), id)
    ELSE <<Head(docs)>> \o Without(Tail(docs), id)

\* InMemoryVectorStore.delete_document
mem_delete_document(id) ==
    /\ memDocs' = Without(memDocs, id)
    /\ memRes' = Outcome("delete", <<>>, 0, id, FALSE, <<>>,
                         Len(Without(memDocs, id)) < Len(memDocs))

\* InMemoryVectorStore.get_document_count
mem_get_document_count == Len(memDocs)

----------------------------------------------------------------------------
(* FAISSVectorStore.initialize and _load_index *)

\* int(k) for the decimal string of a non-negative int
ParseInt(s) == CHOOSE k \in 0..(2 * MaxSlots) : Str(k) = s

\* _load_index that does not restore next_id
load_index_NoNextId(fileI, fileM) ==
    IF fileI.state # "ok"
    THEN [ raised |-> TRUE, index |-> EmptyIndex, documents |-> <<>>,
           id_mapping |-> <<>>, next_id |-> 0, dimension |-> Dimension ]
    ELSE LET loaded == [open |-> TRUE, xb |-> fileI.xb]
         IN  IF fileM.state = "absent"
             THEN [ raised |-> FALSE, index |-> loaded, documents |-> <<>>,
                    id_mapping |-> <<>>, next_id |-> 0, dimension |-> Dimension ]
             ELSE IF fileM.state # "ok"
             THEN [ raised |-> TRUE, index |-> loaded, documents |-> <<>>,
                    id_mapping |-> <<>>, next_id |-> 0, dimension |-> Dimension ]
             ELSE [ raised |-> FALSE, index |-> loaded,
                    documents |->
                        [ slot \in { ParseInt(e[1]) : e \in fileM.json.documents } |->
                            LET e == CHOOSE e \in fileM.json.documents :
                                         ParseInt(e[1]) = slot
                            IN  e[2] ],
                    id_mapping |-> fileM.json.id_mapping,
                    next_id |-> 0,
                    dimension |-> fileM.json.dimension ]

\* the body of _load_index on the two files; file "<path>.index" exists
load_index(fileI, fileM) ==
    IF fileI.state # "ok"
    THEN \* faiss.read_index raises
         [ raised |-> TRUE, index |-> EmptyIndex, documents |-> <<>>,
           id_mapping |-> <<>>, next_id |-> 0, dimension |-> Dimension ]
    ELSE LET loaded == [open |-> TRUE, xb |-> fileI.xb]
         IN  IF fileM.state = "absent"
             THEN [ raised |-> FALSE, index |-> loaded, documents |-> <<>>,
                    id_mapping |-> <<>>, next_id |-> 0, dimension |-> Dimension ]
             ELSE IF fileM.state # "ok"
             THEN \* json.load raises
                  [ raised |-> TRUE, index |-> loaded, documents |-> <<>>,
                    id_mapping |-> <<>>, next_id |-> 0, dimension |-> Dimension ]
             ELSE [ raised |-> FALSE, index |-> loaded,
                    documents |->
                        [ slot \in { ParseInt(e[1]) : e \in fileM.json.documents } |->
                            LET e == CHOOSE e \in fileM.json.documents :
                                         ParseInt(e[1]) = slot
                            IN  e[2] ],
                    id_mapping |-> fileM.json.id_mapping,
                    next_id |-> fileM.json.next_id,
                    dimension |-> fileM.json.dimension ]

\* FAISSVectorStore() followed by initialize(): a new IndexFlatIP, replaced
\* by the persisted one when the index file exists
initialize(fileI, fileM) ==
    IF fileI.state = "absent"
    THEN [ raised |-> FALSE, index |-> EmptyIndex, documents |-> <<>>,
           id_mapping |-> <<>>, next_id |-> 0, dimension |-> Dimension ]
    ELSE load_index(fileI, fileM)

\* the process stops (at any point) and starts again: get_vector_store
\* builds a new FAISSVectorStore and initializes it from the files on disk;
\* the store object stays in use when initialize raised
Restart ==
    /\ LET st == initialize(diskIndex, diskMeta)
       IN  /\ index' = st.index
           /\ documents' = st.documents
           /\ id_mapping' = st.id_mapping
           /\ next_id' = st.next_id
           /\ boot' = IF st.raised THEN "failed" ELSE "ok"
    /\ pc' = [t \in Tasks |-> "idle"]
    /\ arr' = [t \in Tasks |-> <<>>]
    /\ err' = [t \in Tasks |-> NoError]
    /\ cur' = [t \in Tasks |-> <<>>]
    /\ res' = NoResult
    /\ UNCHANGED <<diskIndex, diskMeta>>
    /\ UNCHANGED memVars
    /\ UNCHANGED llmVars /\ UNCHANGED svcVars

----------------------------------------------------------------------------
(* Specification of the vector store *)

StoreInit ==
    /\ index = [open |-> FALSE, xb |-> <<>>]
    /\ documents = <<>>
    /\ id_mapping = <<>>
    /\ next_id = 0
    /\ diskIndex = NoFile
    /\ diskMeta = NoFile
    /\ pc = [t \in Tasks |-> "idle"]
    /\ arr = [t \in Tasks |-> <<>>]
    /\ err = [t \in Tasks |-> NoError]
    /\ cur = [t \in Tasks |-> <<>>]
    /\ res = NoResult
    /\ boot = "none"
    /\ memDocs = <<>>
    /\ memRes = NoResult

LLMIdle ==
    /\ llm = <<>>
    /\ keys = <<>>
    /\ upstream = <<>>
    /\ call = <<>>
    /\ events = <<>>
    /\ rag = <<>>

\* no call has been made on the services of the later sections
SvcIdle ==
    /\ rw = <<>>
    /\ ctor = <<>>
    /\ comp = <<>>
    /\ gvs = <<>>

Init == StoreInit /\ LLMIdle /\ SvcIdle

Next ==
    \/ \E t \in Tasks, docs \in Batches : AddDocuments(t, docs)
    \/ \E t \in Tasks : IndexAddThread(t)
    \/ \E t \in Tasks : WriteIndexThread(t)
    \/ \E t \in Tasks : WriteIndexThreadFails(t)
    \/ \E t \in Tasks : SaveMetadata(t)
    \/ \E t \in Tasks : SaveMetadataFails(t)

Spec == Init /\ [][Next]_vars

\* add_documents calls with well-formed batches only and no I/O failure
ValidBatches ==
    { docs \in Batches :
        /\ docs # <<>>
        /\ \A i \in 1..Len(docs) :
              docs[i].embedding.some /\ Len(docs[i].embedding.v) = Dimension }

NextValidAdds ==
    \/ \E t \in Tasks, docs \in ValidBatches : AddDocuments(t, docs)
    \/ \E t \in Tasks : IndexAddThread(t)
    \/ \E t \in Tasks : WriteIndexThread(t)
    \/ \E t \in Tasks : SaveMetadata(t)

SpecValidAdds == Init /\ [][NextValidAdds]_vars

\* one caller at a time on the FAISS store; writes can fail and the
\* process can stop and restart at any point
NextPersist ==
    \/ \E docs \in Batches : AddDocuments(Caller, docs)
    \/ IndexAddThread(Caller)
    \/ WriteIndexThread(Caller)
    \/ WriteIndexThreadFails(Caller)
    \/ SaveMetadata(Caller)
    \/ SaveMetadataFails(Caller)
    \/ \E id \in DocIds : DeleteDocument(id)
    \/ Restart

SpecPersist == Init /\ [][NextPersist]_vars

\* one caller makes each call on both stores, one call at a time; no I/O
\* failure, no restart
PairAdd(docs) ==
    /\ Len(memDocs) + Len(docs) <= MaxSlots
    /\ add_documents(Caller, docs)
    /\ mem_add_documents(docs)
    /\ res' = NoResult
    /\ UNCHANGED llmVars /\ UNCHANGED svcVars

PairSearch(q, k) ==
    /\ CallerIdle
    /\ search(q, k)
    /\ mem_search(q, k)
    /\ UNCHANGED llmVars /\ UNCHANGED svcVars

PairDelete(id) ==
    /\ CallerIdle
    /\ delete_document(id)
    /\ mem_delete_document(id)
    /\ UNCHANGED llmVars /\ UNCHANGED svcVars

NextPair ==
    \/ \E docs \in Batches : PairAdd(docs)
    \/ IndexAddThread(Caller)
    \/ WriteIndexThread(Caller)
    \/ SaveMetadata(Caller)
    \/ \E q \in QueryPool, k \in KValues : PairSearch(q, k)
    \/ \E id \in DocIds : PairDelete(id)

SpecPair == Init /\ [][NextPair]_vars

----------------------------------------------------------------------------
(* Properties of the vector store *)

\* a batch add_documents must reject: a document without embedding, or
\* with an embedding whose length is not the index dimensionality
Rejected(docs) ==
    \E i \in 1..Len(docs) :
        \/ ~docs[i].embedding.some
        \/ Len(docs[i].embedding.v) # Dimension

MisDimensioned(docs) ==
    \E i \in 1..Len(docs) :
        docs[i].embedding.some /\ Len(docs[i].embedding.v) # Dimension

\* task t is suspended in to_thread(index.add) with rows of the wrong length
InFlightMisDim(t) ==
    pc[t] = "await_add" /\ Len(arr[t][1].dir) # Dimension

\* no add_documents call is in progress
Quiescent == \A t \in Tasks : pc[t] \in {"idle", "returned", "raised"}

\* every slot of the slot->document map is the array position of the
\* vector of that document
SlotsAligned ==
    \A slot \in DOMAIN documents :
        /\ slot < get_document_count
        /\ index.xb[slot + 1] = Normalize(documents[slot].embedding.v)

\* C1: a step of an add_documents call whose batch has a document with no
\* embedding or a mis-dimensioned one leaves the vector count, the
\* slot->document map, the id->slot map and next_id as they were, and the
\* call raises.
C1_AllOrNothing ==
    [][\A t \in Tasks :
         /\ \A docs \in Batches :
               (AddDocuments(t, docs) /\ Rejected(docs)) =>
                   /\ documents' = documents
                   /\ id_mapping' = id_mapping
                   /\ next_id' = next_id
                   /\ get_document_count' = get_document_count
                   /\ pc'[t] = "raised" \/ InFlightMisDim(t)'
         /\ (InFlightMisDim(t) /\ pc'[t] # pc[t]) =>
               /\ documents' = documents
               /\ id_mapping' = id_mapping
               /\ next_id' = next_id
               /\ get_document_count' = get_document_count
               /\ pc'[t] = "raised"
      ]_vars

C3_SlotsSequential ==
    Quiescent => (next_id = get_document_count /\ SlotsAligned)

\* C4: after concurrent add_documents calls with well-formed batches have
\* all completed, every document's slot is the position of its own vector.
C4_ConcurrentAddsAligned ==
    Quiescent => SlotsAligned

\* C5: no two slots hold documents with the same external id, and the
\* id->slot map has one entry per slot.
C5_ExternalIdUnique ==
    /\ \A i, j \in DOMAIN documents :
          i # j => documents[i].id # documents[j].id
    /\ Cardinality(DOMAIN id_mapping) = Cardinality(DOMAIN documents)

----------------------------------------------------------------------------
(* Properties of persistence *)

\* the two files are the ones _save_index writes for the store as it is now
Persisted ==
    /\ index.open
    /\ diskIndex = [state |-> "ok", xb |-> index.xb]
    /\ diskMeta = [state |-> "ok", json |-> Metadata]

\* every search call gives the same outcome on both stores (which is
\* immediate when the vectors and the slot maps are the same)
SameSearches(xb1, docs1, xb2, docs2) ==
    \/ xb1 = xb2 /\ docs1 = docs2
    \/ \A q \in QueryPool, k \in KValues :
          FaissSearch(xb1, docs1, q, k) = FaissSearch(xb2, docs2, q, k)

\* C11: a new store initialized from the files that _save_index wrote for
\* the current state has the same slot -> document map, id -> slot map,
\* next_id, dimension and vectors, so every search gives the same documents
\* in the same order with the same scores.
C11_PersistReloadRoundTrip ==
    [][ (Restart /\ Persisted) =>
            /\ boot' = "ok"
            /\ index' = index
            /\ documents' = documents
            /\ id_mapping' = id_mapping
            /\ next_id' = next_id
            /\ initialize(diskIndex, diskMeta).dimension = Dimension
            /\ SameSearches(index'.xb, documents', index.xb, documents) ]_vars

C11_Witness ==
    /\ boot = "ok"
    /\ pc[Caller] = "idle"
    /\ Persisted
    /\ Len(index.xb) >= 2
    /\ DOMAIN documents = 0..(Len(index.xb) - 1)

\* the slots listed in a metadata file
FileSlots(fileM) == { ParseInt(e[1]) : e \in fileM.json.documents }

\* the files on disk do not belong together
Mismatched ==
    /\ diskIndex.state = "ok"
    /\ \/ diskMeta.state = "absent"
       \/ /\ diskMeta.state = "ok"
          /\ FileSlots(diskMeta) # 0..(Len(diskIndex.xb) - 1)

\* C12: initializing from an index file without metadata file, or with a
\* metadata file whose slots disagree with the index, fails with an error;
\* a successful initialization never leaves vectors without documents or
\* documents without vectors.
C12_MismatchedArtifactsRejected ==
    [][ Restart =>
            /\ Mismatched => boot' = "failed"
            /\ boot' = "ok" => DOMAIN documents' = 0..(Len(index'.xb) - 1) ]_vars

\* C13: every slot listed in the persisted metadata has a vector in the
\* persisted index file, at every point of every run.
C13_PersistedSlotsHaveVectors ==
    diskMeta.state = "ok" =>
        /\ diskIndex.state = "ok"
        /\ \A slot \in FileSlots(diskMeta) : slot < Len(diskIndex.xb)

\* some search with the document's own embedding returns the document
ReturnedBySearch(doc, xb, docs) ==
    \E k \in KValues :
        LET r == FaissSearch(xb, docs, doc.embedding.v, k)
        IN  /\ ~r.raised
            /\ \E i \in 1..Len(r.results) : r.results[i].document = doc

\* C14: when _save_index fails after index.add succeeded, add_documents
\* raises and the in-memory add stays: the count has grown by the batch
\* size and the documents of the batch are returned by search.
C14_SaveFailureKeepsAdd ==
    [][ /\ (IndexAddThread(Caller) /\ pc'[Caller] = "await_write") =>
              get_document_count' = get_document_count + Len(cur[Caller])
        /\ (WriteIndexThreadFails(Caller) \/ SaveMetadataFails(Caller)) =>
              /\ pc'[Caller] = "raised"
              /\ err'[Caller] = "save index"
              /\ get_document_count' = get_document_count
              /\ \A i \in 1..Len(cur[Caller]) :
                    ReturnedBySearch(cur[Caller][i], index'.xb, documents') ]_vars

----------------------------------------------------------------------------
(* Properties of search and delete_document *)

\* C15: delete_document on the FAISS store returns False for every id and
\* changes nothing: the count and every search outcome are the same before
\* and after the call.
C15_FaissDeleteIsNoOp ==
    [][ \A id \in DocIds : DeleteDocument(id) =>
            /\ res'.op = "delete"
            /\ ~res'.raised
            /\ ~res'.deleted
            /\ get_document_count' = get_document_count
            /\ index' = index
            /\ documents' = documents
            /\ id_mapping' = id_mapping
            /\ SameSearches(index'.xb, documents', index.xb, documents) ]_vars

C15_Witness ==
    /\ res.op = "delete"
    /\ ~res.deleted
    /\ res.id \in DOMAIN id_mapping
    /\ get_document_count > 0
    /\ documents[id_mapping[res.id]].id = res.id

\* what the caller's last call on the FAISS store gave
FaissOutcome ==
    IF memRes.op = "add"
    THEN Outcome("add", <<>>, 0, "", pc[Caller] = "raised", <<>>, FALSE)
    ELSE res

\* C16: the same calls with the same inputs give the same results and the
\* same error outcomes on the in-memory store as on the FAISS store, and
\* the same count.
C16_SameContract ==
    CallerIdle =>
        /\ FaissOutcome = memRes
        /\ get_document_count = mem_get_document_count

\* the search call that returned last had a non-zero query of the index
\* dimension
WellFormedQuery(r) == r.op = "search" /\ Len(r.q) = Dimension /\ GcdSeq(r.q) # 0

\* C17: search(query, k) with k larger than the count returns exactly
\* count results, on the FAISS store and on the in-memory store.
C17_LargeKReturnsCount ==
    /\ (WellFormedQuery(res) /\ res.k > get_document_count) =>
            ~res.raised /\ Len(res.results) = get_document_count
    /\ (WellFormedQuery(memRes) /\ memRes.k > mem_get_document_count) =>
            ~memRes.raised /\ Len(memRes.results) = mem_get_document_count

\* C18: search on an empty index returns the empty list and does not
\* raise, for every k, on the FAISS store and on the in-memory store.
C18_EmptyIndexSearchIsEmpty ==
    /\ (WellFormedQuery(res) /\ get_document_count = 0) =>
            ~res.raised /\ res.results = <<>>
    /\ (WellFormedQuery(memRes) /\ mem_get_document_count = 0) =>
            ~memRes.raised /\ memRes.results = <<>>

\* a similarity of 1.0
IsOne(score) == ~score.nan /\ score.sgn = 1 /\ score.n = score.d

\* C19: when add_documents returns after adding a batch, a search with the
\* embedding of any document of the batch (k >= 1) returns that document
\* first, with similarity 1.0, whatever add_documents calls came before.
C19_AddedDocumentTopRanked ==
    [][ SaveMetadata(Caller) =>
            \A i \in 1..Len(cur[Caller]), k \in KValues :
                LET r == FaissSearch(index'.xb, documents',
                                     cur[Caller][i].embedding.v, k)
                IN  /\ ~r.raised
                    /\ r.results # <<>>
                    /\ r.results[1].document = cur[Caller][i]
                    /\ IsOne(r.results[1].score) ]_vars

----------------------------------------------------------------------------
(* MultiLLMClient *)

\* provider names a configuration can hold; "anthropic" stands for any
\* name _generate_with_provider has no branch for
Providers == {"openai", "gemini", "anthropic"}
Supported == {"openai", "gemini"}

\* the provider keyword some callers pass to generate_text
NoKeyword == "none"
Keywords == {NoKeyword, "openai", "gemini"}

\* settings.openai_model / settings.gemini_model (the call passes no model)
DefaultModel(p) == IF p = "openai" THEN "gpt-4-turbo-preview" ELSE "gemini-2.0-flash"

\* exception messages, as sequences of text fragments
ProviderLabel(p) == IF p = "openai" THEN "OpenAI" ELSE "Gemini"
NotConfiguredMsg(p) == <<ProviderLabel(p), " API key not configured">>
UpstreamText(p) == IF p = "openai" THEN "<openai client exception>"
                   ELSE "<genai exception>"
AdapterErrorMsg(p) == <<ProviderLabel(p), " error: ", UpstreamText(p)>>
UnsupportedMsg(p) == <<"Unsupported provider: ", p>>

AIProviderError(message) == [type |-> "AIProviderError", message |-> message]
TypeError == [type |-> "TypeError",
              message |-> <<"generate_text() got an unexpected keyword argument 'provider'">>]
NoException == [type |-> "", message |-> <<>>]

\* an AIResponse labelled with the requested provider
AIResponse_Requested(p) ==
    [content |-> UpstreamText(p), provider |-> llm.primary_provider, model |-> DefaultModel(p)]

\* AIResponse built by _generate_openai / _generate_gemini
AIResponse(p) == [content |-> UpstreamText(p), provider |-> p, model |-> DefaultModel(p)]
NoResponse == [content |-> "", provider |-> "", model |-> ""]

IdleCall == [pc |-> "idle", kw |-> NoKeyword, stage |-> "", response |-> NoResponse,
             error |-> NoException]

\* no RAGService call has been made
IdleRag == [op |-> "none", pc |-> "idle", source |-> "none"]

StageProvider(stage) ==
    IF stage = "primary" THEN llm.primary_provider ELSE llm.fallback_provider

Invoke(p) == [op |-> "invoke", provider |-> p, ok |-> FALSE, message |-> <<>>]
Failed(p, message) == [op |-> "end", provider |-> p, ok |-> FALSE, message |-> message]
Succeeded(p) == [op |-> "end", provider |-> p, ok |-> TRUE, message |-> <<>>]

\* the condition of line 57 under which the except branch tries the fallback
FallbackEligible_NoDistinctCheck == llm.enable_fallback
FallbackEligible_Inverted == llm.enable_fallback /\ llm.fallback_provider = llm.primary_provider
FallbackEligible == llm.enable_fallback /\ llm.fallback_provider # llm.primary_provider

\* generate_text from the point where it calls _generate_with_provider for
\* the provider of `stage`, up to the next suspension or the end of the call.
\* _generate_with_provider raises for an unknown name, the adapter raises
\* when its API key is missing, otherwise the upstream request is awaited.
\* A failure of the primary attempt moves on to the fallback when eligible.
RECURSIVE Attempt(_, _)
Attempt(stage, ev) ==
    LET p == StageProvider(stage)
        message == IF p \notin Supported THEN UnsupportedMsg(p) ELSE NotConfiguredMsg(p)
        ev2 == ev \o <<Invoke(p), Failed(p, message)>>
    IN  IF p \in Supported /\ keys[p]
        THEN [call |-> [pc |-> "await", kw |-> NoKeyword, stage |-> stage,
                        response |-> NoResponse, error |-> NoException],
              events |-> Append(ev, Invoke(p))]
        ELSE IF stage = "primary"
             THEN IF FallbackEligible
                  THEN Attempt("fallback", ev2)
                  ELSE [call |-> [pc |-> "raised", kw |-> NoKeyword, stage |-> stage,
                                  response |-> NoResponse,
                                  error |-> AIProviderError(<<"Primary provider failed: ">> \o message)],
                        events |-> ev2]
             ELSE [call |-> [pc |-> "raised", kw |-> NoKeyword, stage |-> stage,
                             response |-> NoResponse,
                             error |-> AIProviderError(<<"Both primary and fallback providers failed">>)],
                   events |-> ev2]

\* generate_text up to its first suspension or its end, called with or
\* without a provider keyword
generate_text(kw) ==
    /\ call.pc \in {"idle", "returned", "raised"}
    /\ IF kw # NoKeyword
       THEN /\ call' = [pc |-> "raised", kw |-> kw, stage |-> "", response |-> NoResponse,
                        error |-> TypeError]
            /\ events' = <<>>
       ELSE LET r == Attempt("primary", <<>>)
            IN  /\ call' = r.call
                /\ events' = r.events
    /\ UNCHANGED <<llm, keys, upstream>>

\* a generate_text call made on the client directly
GenerateText(kw) ==
    /\ generate_text(kw)
    /\ UNCHANGED rag
    /\ UNCHANGED storeVars /\ UNCHANGED svcVars

\* the awaited upstream request of the adapter completes with a response
UpstreamResponds ==
    /\ call.pc = "await"
    /\ upstream[StageProvider(call.stage)] = "ok"
    /\ call' = [call EXCEPT !.pc = "returned",
                            !.response = AIResponse(StageProvider(call.stage))]
    /\ events' = Append(events, Succeeded(StageProvider(call.stage)))
    /\ UNCHANGED <<llm, keys, upstream, rag>>
    /\ UNCHANGED storeVars /\ UNCHANGED svcVars

\* the awaited upstream request raises; the adapter wraps the exception and
\* generate_text handles it in its except branch
UpstreamFails ==
    /\ call.pc = "await"
    /\ upstream[StageProvider(call.stage)] = "error"
    /\ LET p == StageProvider(call.stage)
           ev2 == Append(events, Failed(p, AdapterErrorMsg(p)))
       IN  IF call.stage = "primary"
           THEN IF FallbackEligible
                THEN LET r == Attempt("fallback", ev2)
                     IN  call' = r.call /\ events' = r.events
                ELSE /\ call' = [call EXCEPT !.pc = "raised",
                                   !.error = AIProviderError(<<"Primary provider failed: ">>
                                                             \o AdapterErrorMsg(p))]
                     /\ events' = ev2
           ELSE /\ call' = [call EXCEPT !.pc = "raised",
                              !.error = AIProviderError(<<"Both primary and fallback providers failed">>)]
                /\ events' = ev2
    /\ UNCHANGED <<llm, keys, upstream, rag>>
    /\ UNCHANGED storeVars /\ UNCHANGED svcVars

\* the fields __init__ stores in the instance (primary_provider,
\* fallback_provider, enable_fallback), the API keys of the settings, and
\* the behaviour of the two upstream services
LLMInit ==
    /\ llm \in [primary_provider : Providers, fallback_provider : Providers,
                enable_fallback : BOOLEAN]
    /\ keys \in [Supported -> BOOLEAN]
    /\ upstream \in [Supported -> {"ok", "error"}]
    /\ call = IdleCall
    /\ events = <<>>
    /\ rag = IdleRag

InitLLM == StoreInit /\ LLMInit /\ SvcIdle

NextLLM ==
    \/ \E kw \in Keywords : GenerateText(kw)
    \/ UpstreamResponds
    \/ UpstreamFails

SpecLLM == InitLLM /\ [][NextLLM]_vars

----------------------------------------------------------------------------
(* RAGService: the calls that generate text *)

\* rewrite_content, up to the generate_text call of _generate_rewrite_with_rag
\* (_retrieve_rewrite_context returns the empty list; no provider keyword)
RewriteContent ==
    /\ rag.pc # "await"
    /\ generate_text(NoKeyword)
    /\ rag' = [op |-> "rewrite", pc |-> "await", source |-> "none"]
    /\ UNCHANGED storeVars /\ UNCHANGED svcVars

\* generate_trend_recommendations, up to its generate_text call, which
\* passes provider="gemini"
GenerateTrendRecommendations ==
    /\ rag.pc # "await"
    /\ generate_text("gemini")
    /\ rag' = [op |-> "trends", pc |-> "await", source |-> "none"]
    /\ UNCHANGED storeVars /\ UNCHANGED svcVars

\* the RAGService call goes on after generate_text returned or raised.
\* _generate_rewrite_with_rag returns response.content, or, in its except
\* branch, the text of _simple_rewrite_fallback; rewrite_content returns
\* that value.  generate_trend_recommendations calls .get on the AIResponse
\* (which has no such method) and returns its built-in list from the
\* except branch whether generate_text returned or raised.
RagReturns ==
    /\ rag.pc = "await"
    /\ call.pc \in {"returned", "raised"}
    /\ rag' = [rag EXCEPT !.pc = "returned",
                          !.source = IF rag.op = "rewrite" /\ call.pc = "returned"
                                     THEN "llm" ELSE "local"]
    /\ UNCHANGED <<llm, keys, upstream, call, events>>
    /\ UNCHANGED storeVars /\ UNCHANGED svcVars

NextRAG ==
    \/ RewriteContent
    \/ GenerateTrendRecommendations
    \/ UpstreamResponds
    \/ UpstreamFails
    \/ RagReturns

SpecRAG == InitLLM /\ [][NextRAG]_vars

----------------------------------------------------------------------------
(* Properties of RAGService *)

\* C20: when generate_text raises, the RAGService call that made it ends
\* with an error and does not return content produced locally.
C20_FailureSurfaces ==
    (rag.pc \in {"returned", "raised"} /\ call.pc = "raised") =>
        (rag.pc = "raised" /\ rag.source # "local")

----------------------------------------------------------------------------
(* Properties of MultiLLMClient.generate_text *)

CallDone == call.pc \in {"returned", "raised"}

\* provider p cannot answer: no branch for it, no API key, or its service errs
ProviderFails(p) == p \notin Supported \/ ~keys[p] \/ upstream[p] = "error"
ProviderSucceeds(p) == p \in Supported /\ keys[p] /\ upstream[p] = "ok"

Invokes == { i \in DOMAIN events : events[i].op = "invoke" }
FailedAttempts == { i \in DOMAIN events : events[i].op = "end" /\ ~events[i].ok }

IsSubSeq(m, message) ==
    \E i \in 0..(Len(message) - Len(m)) : SubSeq(message, i + 1, i + Len(m)) = m

NameTokens(p) == IF p \in Supported THEN {p, ProviderLabel(p)} ELSE {p}
Names(message, p) == \E i \in DOMAIN message : message[i] \in NameTokens(p)

C7_AggregateNamesBoth ==
    (call.pc = "raised" /\ Cardinality(FailedAttempts) = 2) =>
        /\ call.error.type = "AIProviderError"
        /\ \A i \in FailedAttempts :
              /\ Names(call.error.message, events[i].provider)
              /\ IsSubSeq(events[i].message, call.error.message)

\* C8: the provider field of a returned response is the provider whose
\* adapter produced it; when the fallback answered it is the fallback and
\* not the primary.
C8_ProviderIsResponder ==
    call.pc = "returned" =>
        /\ events[Len(events)] = Succeeded(call.response.provider)
        /\ events[Len(events) - 1] = Invoke(call.response.provider)
        /\ call.stage = "fallback" =>
              /\ call.response.provider = llm.fallback_provider
              /\ call.response.provider # llm.primary_provider

\* the fallback produced the returned response
C8_Witness ==
    /\ call.pc = "returned"
    /\ call.stage = "fallback"
    /\ Len(events) = 4

\* C9: the first provider invoked by a generate_text call is the provider
\* keyword when one is passed, else the configured primary.
C9_TargetResolved ==
    call.pc # "idle" =>
        /\ events # <<>>
        /\ events[1] = Invoke(IF call.kw # NoKeyword THEN call.kw
                              ELSE llm.primary_provider)

\* C10: in a generate_text call the primary is invoked first and exactly
\* once; a second invocation happens only directly after the primary's
\* failure, only with fallback enabled and a fallback different from the
\* primary, and is for the fallback; no provider is invoked twice and every
\* invocation has ended before the next one starts.
C10_SingleAttemptSequential ==
    (call.pc # "idle" /\ call.kw = NoKeyword) =>
        /\ events[1] = Invoke(llm.primary_provider)
        /\ Cardinality({ i \in Invokes : events[i].provider = llm.primary_provider }) = 1
        /\ Cardinality(Invokes) <= 2
        /\ \A i \in Invokes :
              i > 1 =>
                 /\ i = 3
                 /\ events[2].op = "end" /\ ~events[2].ok
                 /\ events[2].provider = llm.primary_provider
                 /\ llm.enable_fallback
                 /\ llm.fallback_provider # llm.primary_provider
                 /\ events[i].provider = llm.fallback_provider
        /\ \A i \in Invokes :
              i < Len(events) =>
                 /\ events[i + 1].op = "end"
                 /\ events[i + 1].provider = events[i].provider
        /\ \A i \in DOMAIN events :
              events[i].op = "end" => (i - 1) \in Invokes

\* both providers were tried, one after the other
C10_Witness ==
    /\ CallDone
    /\ call.kw = NoKeyword
    /\ Cardinality(Invokes) = 2
    /\ Len(events) = 4

----------------------------------------------------------------------------
(* RAGService.rewrite_content *)

MaxText == 3       \* longest text a provider answers with
MaxLength == 3     \* largest max_length passed to rewrite_content

\* texts are sequences of characters; "x" stands for any character that is
\* neither whitespace nor sentence punctuation
Chars == {"x", " "}
Texts == UNION { [1..n -> Chars] : n \in 0..MaxText }
ContentPool == { <<"x">>, <<"x", " ", "x">> }

\* s[:n] for n >= 0
Take(s, n) == SubSeq(s, 1, Min(n, Len(s)))

\* str.strip()
RECURSIVE LStrip(_)
LStrip(s) == IF s # <<>> /\ Head(s) = " " THEN LStrip(Tail(s)) ELSE s

RECURSIVE RStrip(_)
RStrip(s) == IF s # <<>> /\ s[Len(s)] = " " THEN RStrip(SubSeq(s, 1, Len(s) - 1)) ELSE s

Strip(s) == RStrip(LStrip(s))

\* s.rsplit(' ', 1)[0]: the text before the last space, or all of s
RSplitHead(s) ==
    LET spaces == { i \in 1..Len(s) : s[i] = " " }
    IN  IF spaces = {} THEN s
        ELSE SubSeq(s, 1, (CHOOSE i \in spaces : \A j \in spaces : j <= i) - 1)

Ellipsis == <<".", ".", ".">>

\* str(n) as characters
RECURSIVE Decimal(_)
Decimal(n) == IF n < 10 THEN <<Digits[n + 1]>>
              ELSE Append(Decimal(n \div 10), Digits[(n % 10) + 1])

\* the fixed parts of the query for field="caption", platform="twitter",
\* content_type="post", tone="professional", goals=None
QueryHead ==
    <<"R", "e", "w", "r", "i", "t", "e", " ", "t", "h", "e", " ", "c",
      "a", "p", "t", "i", "o", "n", " ", "f", "o", "r", " ", "a", " ",
      "p", "o", "s", "t", " ", "o", "n", " ", "t", "w", "i", "t", "t",
      "e", "r", ".", " ", "C", "u", "r", "r", "e", "n", "t", " ", "c",
      "o", "n", "t", "e", "n", "t", ":", " ">>

QueryMiddle ==
    <<".", " ", "T", "o", "n", "e", ":", " ", "p", "r", "o", "f", "e",
      "s", "s", "i", "o", "n", "a", "l", ".", " ", "P", "l", "a", "t",
      "f", "o", "r", "m", ":", " ", "t", "w", "i", "t", "t", "e", "r",
      ".", " ", "M", "a", "x", "i", "m", "u", "m", " ", "l", "e", "n",
      "g", "t", "h", ":", " ">>

QueryTail ==
    <<" ", "c", "h", "a", "r", "a", "c", "t", "e", "r", "s", ".", " ",
      "G", "o", "a", "l", "s", ":", " ", "G", "e", "n", "e", "r", "a",
      "l", " ", "e", "n", "g", "a", "g", "e", "m", "e", "n", "t", ".",
      " ", "M", "a", "k", "e", " ", "i", "t", " ", "m", "o", "r", "e",
      " ", "e", "n", "g", "a", "g", "i", "n", "g", ",", " ", "p", "l",
      "a", "t", "f", "o", "r", "m", "-", "a", "p", "p", "r", "o", "p",
      "r", "i", "a", "t", "e", ",", " ", "a", "n", "d", " ", "a", "l",
      "i", "g", "n", "e", "d", " ", "w", "i", "t", "h", " ", "t", "h",
      "e", " ", "s", "p", "e", "c", "i", "f", "i", "e", "d", " ", "t",
      "o", "n", "e">>

\* _build_rewrite_query: the parts joined with ". "
build_rewrite_query(current_content, max_length) ==
    QueryHead \o Take(current_content, 300) \o QueryMiddle
        \o Decimal(max_length) \o QueryTail

\* _retrieve_rewrite_context: the documents it returns and the calls it
\* makes on the embedding model and the vector store (it makes none)
retrieve_rewrite_context_Raises ==
    [context_documents |-> <<>>, steps |-> <<>>, raised |-> TRUE]
retrieve_rewrite_context ==
    [context_documents |-> <<>>, steps |-> <<>>, raised |-> FALSE]

\* lines 729-733 of _generate_rewrite_with_rag: the text made of
\* response.content
rewritten_content(content, max_length) ==
    LET stripped == Strip(content)
    IN  IF Len(stripped) > max_length
        THEN RSplitHead(Take(stripped, max_length)) \o Ellipsis
        ELSE stripped

\* _simple_rewrite_fallback
simple_rewrite_fallback(content, max_length) ==
    LET stripped == Strip(content)
        improved == IF stripped # <<>> /\ stripped[Len(stripped)] \in {".", "!", "?"}
                    THEN stripped ELSE Append(stripped, ".")
    IN  IF Len(improved) > max_length
        THEN RSplitHead(Take(improved, max_length)) \o Ellipsis
        ELSE improved

\* no rewrite_content call has been made
IdleRewrite == [pc |-> "idle", current_content |-> <<>>, max_length |-> 0,
                query |-> <<>>, context_documents |-> <<>>, steps |-> <<>>,
                reply |-> <<>>, source |-> "none", value |-> [content |-> <<>>]]

\* rewrite_content up to the suspension of its generate_text call: the
\* query is built, _retrieve_rewrite_context returns, and
\* _generate_rewrite_with_rag calls the client (no provider keyword).
\* An exception of the retrieval reaches the except branch of line 658.
RewriteContentCall(current_content, max_length) ==
    LET ctx == retrieve_rewrite_context
        started == [IdleRewrite EXCEPT
                       !.current_content = current_content,
                       !.max_length = max_length,
                       !.query = build_rewrite_query(current_content, max_length),
                       !.context_documents = ctx.context_documents,
                       !.steps = ctx.steps]
    IN  /\ rw.pc # "await"
        /\ IF ctx.raised
           THEN /\ rw' = [started EXCEPT !.pc = "raised"]
                /\ UNCHANGED <<llm, keys, upstream, call, events>>
           ELSE /\ generate_text(NoKeyword)
                /\ rw' = [started EXCEPT !.pc = "await",
                                         !.steps = Append(ctx.steps, "generate_text")]
        /\ UNCHANGED <<rag, ctor, comp, gvs>>
        /\ UNCHANGED storeVars

\* generate_text returned a response whose content is `text`:
\* _generate_rewrite_with_rag returns the cleaned text, a str, and
\* rewrite_content returns that str
RewriteReturnsGenerated(text) ==
    /\ rw.pc = "await"
    /\ call.pc = "returned"
    /\ rw' = [rw EXCEPT !.pc = "returned", !.reply = text, !.source = "llm",
                        !.value = [content |-> rewritten_content(text, rw.max_length)]]
    /\ UNCHANGED <<llm, keys, upstream, call, events, rag, ctor, comp, gvs>>
    /\ UNCHANGED storeVars

\* generate_text raised: the except branch of _generate_rewrite_with_rag
\* returns _simple_rewrite_fallback(rag_context.query, max_length)
RewriteReturnsFallback ==
    /\ rw.pc = "await"
    /\ call.pc = "raised"
    /\ rw' = [rw EXCEPT !.pc = "returned", !.source = "local",
                        !.value = [content |-> simple_rewrite_fallback(rw.query, rw.max_length)]]
    /\ UNCHANGED <<llm, keys, upstream, call, events, rag, ctor, comp, gvs>>
    /\ UNCHANGED storeVars

InitRewrite ==
    /\ StoreInit
    /\ LLMInit
    /\ rw = IdleRewrite
    /\ ctor = <<>>
    /\ comp = <<>>
    /\ gvs = <<>>

NextRewrite ==
    \/ \E c \in ContentPool, n \in 0..MaxLength : RewriteContentCall(c, n)
    \/ UpstreamResponds
    \/ UpstreamFails
    \/ \E text \in Texts : RewriteReturnsGenerated(text)
    \/ RewriteReturnsFallback

SpecRewrite == InitRewrite /\ [][NextRewrite]_vars

----------------------------------------------------------------------------
(* Properties of RAGService.rewrite_content *)

\* C21: a rewrite_content call that reaches the generation client has first
\* embedded the query and then searched the vector index, in that order.
C21_RetrievalPrecedesGeneration ==
    \A j \in 1..Len(rw.steps) :
        rw.steps[j] = "generate_text" =>
            \E i, k \in 1..Len(rw.steps) :
                /\ i < k /\ k < j
                /\ rw.steps[i] = "embed_text"
                /\ rw.steps[k] = "search"

C23_ResponseReturnedVerbatim ==
    (rw.pc = "returned" /\ rw.source = "llm") =>
        /\ rw.value.content = rw.reply
        /\ {"provider", "model"} \subseteq DOMAIN rw.value

\* C30: the text rewrite_content returns is never longer than max_length,
\* whether it was generated or made by _simple_rewrite_fallback.
C30_RewriteWithinMaxLength ==
    rw.pc = "returned" => Len(rw.value.content) <= rw.max_length

----------------------------------------------------------------------------
(* MultiLLMClient: upstream requests that are never answered *)

\* the adapters pass no timeout to client.chat.completions.create or to
\* model.generate_content and do not bound the await: a request to a
\* service that stays "silent" is awaited until the service answers
UpstreamBehaviours == {"ok", "error", "silent"}

LLMInitSilent ==
    /\ llm \in [primary_provider : Providers, fallback_provider : Providers,
                enable_fallback : BOOLEAN]
    /\ keys \in [Supported -> BOOLEAN]
    /\ upstream \in [Supported -> UpstreamBehaviours]
    /\ call = IdleCall
    /\ events = <<>>
    /\ rag = IdleRag

InitLLMLive == StoreInit /\ LLMInitSilent /\ SvcIdle

\* the event loop resumes a coroutine whose awaited request has completed
SpecLLMLive ==
    /\ InitLLMLive
    /\ [][NextLLM]_vars
    /\ WF_vars(UpstreamResponds)
    /\ WF_vars(UpstreamFails)

\* C24: every generate_text call that waits for a provider eventually
\* completes, even when the provider never answers.
C24_GenerateTextCompletes ==
    (call.pc = "await") ~> (call.pc \in {"returned", "raised"})

----------------------------------------------------------------------------
(* MultiLLMClient: the exceptions of the adapters *)

\* raised by _generate_openai / _generate_gemini when the API key is missing
NotConfigured(p) == AIProviderError(NotConfiguredMsg(p))

\* raised by the except branch of _generate_openai / _generate_gemini when
\* the upstream request fails
CallFailed(p) == AIProviderError(AdapterErrorMsg(p))

\* C25: an adapter without credentials fails with a failure whose kind
\* differs from the kind of a provider call failure.
C25_NotConfiguredIsDistinctKind ==
    \A i \in 1..Len(events) :
        \A p \in Supported :
            events[i] = Failed(p, NotConfigured(p).message) =>
                \A q \in Supported : NotConfigured(p).type # CallFailed(q).type

----------------------------------------------------------------------------
(* MultiLLMClient.__init__ *)

\* the attributes of the Settings object that __init__ and the adapters
\* read (config.py); the API keys are kept as "is set"
Configurations ==
    [primary_ai_provider : Providers, fallback_ai_provider : Providers,
     enable_fallback : BOOLEAN, openai_api_key : BOOLEAN, gemini_api_key : BOOLEAN]

AttributeError(name) ==
    [type |-> "AttributeError",
     message |-> <<"'Settings' object has no attribute '", name, "'">>]

NoInstance == [primary_provider |-> "", fallback_provider |-> "", enable_fallback |-> FALSE]

\* MultiLLMClient(): the three attribute reads of lines 29-31 in order; a
\* read of an attribute the Settings class does not define raises
MultiLLMClient_init(settings) ==
    IF "primary_ai_provider" \notin DOMAIN settings
    THEN [pc |-> "raised", self |-> NoInstance, error |-> AttributeError("primary_ai_provider")]
    ELSE IF "fallback_ai_provider" \notin DOMAIN settings
    THEN [pc |-> "raised", self |-> NoInstance, error |-> AttributeError("fallback_ai_provider")]
    ELSE IF "enable_ai_fallback" \notin DOMAIN settings
    THEN [pc |-> "raised", self |-> NoInstance, error |-> AttributeError("enable_ai_fallback")]
    ELSE [pc |-> "constructed",
          self |-> [primary_provider |-> settings.primary_ai_provider,
                    fallback_provider |-> settings.fallback_ai_provider,
                    enable_fallback |-> settings.enable_ai_fallback],
          error |-> NoException]

\* a caller constructs the client
Construct ==
    /\ ctor.pc = "none"
    /\ LET r == MultiLLMClient_init(ctor.settings)
       IN  ctor' = [ctor EXCEPT !.pc = r.pc, !.self = r.self, !.error = r.error]
    /\ UNCHANGED <<rw, comp, gvs>>
    /\ UNCHANGED storeVars
    /\ UNCHANGED llmVars

InitCtor ==
    /\ StoreInit
    /\ LLMIdle
    /\ ctor \in [settings : Configurations, pc : {"none"}, self : {NoInstance},
                 error : {NoException}]
    /\ rw = <<>>
    /\ comp = <<>>
    /\ gvs = <<>>

NextCtor == Construct

SpecCtor == InitCtor /\ [][NextCtor]_vars

\* C28: constructing a MultiLLMClient succeeds for every configuration, and
\* the instance holds the configured primary and fallback providers and the
\* configuration's enable-fallback setting.
C28_ConstructionSucceeds ==
    ctor.pc # "none" =>
        /\ ctor.pc = "constructed"
        /\ ctor.self.primary_provider = ctor.settings.primary_ai_provider
        /\ ctor.self.fallback_provider = ctor.settings.fallback_ai_provider
        /\ ctor.self.enable_fallback = ctor.settings.enable_fallback

----------------------------------------------------------------------------
(* CompetitorAnalysisService.analyze_competitors and                       *)
(* CompetitorAnalysisPipeline.run_analysis                                  *)
(* The service and pipeline objects are taken as constructed; the logger   *)
(* calls of the except branches are taken not to raise.                    *)

MaxCompetitors == 2      \* longest competitors list of a call

CompetitorNames == {"c1", "c2"}
CompetitorLists == UNION { [1..n -> CompetitorNames] : n \in 0..MaxCompetitors }
PlatformLists == { <<>>, <<"instagram">>, <<"instagram", "youtube">> }

\* the classes an exception is an instance of (exceptions.py; ValueError
\* is the built-in)
Bases(type) ==
    CASE type = "ValueError" -> {"ValueError", "Exception"}
      [] type = "InsufficientDataError" ->
             {"InsufficientDataError", "AIServiceException", "Exception"}
      [] type = "CompetitorAnalysisError" ->
             {"CompetitorAnalysisError", "AIServiceException", "Exception"}
      [] OTHER -> {}

\* CompetitorAnalysisError(competitor, platform): message is None, so the
\* message is the default one; str(e) of the cause is kept as platform
CompetitorAnalysisError(competitor, platform) ==
    [type |-> "CompetitorAnalysisError",
     message |-> <<"Failed to analyze competitor '", competitor, "'">>,
     platform |-> platform]
NoCompError == [type |-> "", message |-> <<>>, platform |-> ""]

\* the input check at the head of analyze_competitors: the exception it
\* raises inside the try block, or none
InsufficientData(competitors, platforms) ==
    IF competitors = <<>> THEN "competitors"
    ELSE IF platforms = <<>> THEN "platforms"
    ELSE "none"

\* str(e) of the InsufficientDataError raised for the given data
InsufficientDataText(required) ==
    "Insufficient data for analysis. Required: " \o required

\* _validate_config: the message of the ValueError it raises, or "ok"
PipelineConfigs ==
    [user_id : {"", "u1"}, competitors : CompetitorLists, platforms : PlatformLists,
     time_period_days : {0, 30, 400}, max_posts_per_competitor : {50, 1001}]

validate_config(config) ==
    IF config.user_id = "" THEN "User ID is required"
    ELSE IF config.competitors = <<>> THEN "At least one competitor must be specified"
    ELSE IF config.platforms = <<>> THEN "At least one platform must be specified"
    ELSE IF config.time_period_days <= 0 \/ config.time_period_days > 365
         THEN "Time period must be between 1 and 365 days"
    ELSE IF config.max_posts_per_competitor <= 0 \/ config.max_posts_per_competitor > 1000
         THEN "Max posts per competitor must be between 1 and 1000"
    ELSE "ok"

NoEntries == [c \in CompetitorNames |-> "absent"]

IdleComp == [op |-> "none", pc |-> "idle", competitors |-> <<>>, platforms |-> <<>>,
             i |-> 0, outcomes |-> <<>>, results |-> NoEntries,
             rejected |-> FALSE, error |-> NoCompError]

\* analyze_competitors from its start: the input check, whose exception the
\* except branch of line 138 wraps, and the empty results structure; then
\* the first competitor is awaited
analyze_competitors(op, competitors, platforms) ==
    LET missing == InsufficientData(competitors, platforms)
        started == [IdleComp EXCEPT !.op = op, !.competitors = competitors,
                                    !.platforms = platforms]
    IN  IF missing # "none"
        THEN [started EXCEPT !.pc = "raised",
                 !.rejected = TRUE,
                 !.error = CompetitorAnalysisError("Multiple competitors",
                                                   InsufficientDataText(missing))]
        ELSE [started EXCEPT !.pc = "competitor", !.i = 1]

\* a call of the service method
AnalyzeCompetitors(competitors, platforms) ==
    /\ comp.pc \in {"idle", "returned", "raised"}
    /\ comp' = analyze_competitors("analyze", competitors, platforms)
    /\ UNCHANGED <<rw, ctor, gvs>>
    /\ UNCHANGED storeVars
    /\ UNCHANGED llmVars

\* the loop body after _analyze_single_competitor ended: its entry is
\* stored under the competitor's name; after the last competitor the
\* summary is made and analyze_competitors returns
AfterCompetitor(entry) ==
    LET c == comp.competitors[comp.i]
        last == comp.i = Len(comp.competitors)
    IN  [comp EXCEPT !.results = [comp.results EXCEPT ![c] = entry],
                     !.outcomes = Append(comp.outcomes, entry),
                     !.i = comp.i + 1,
                     !.pc = IF ~last THEN "competitor"
                            ELSE IF comp.op = "analyze" THEN "returned" ELSE "pipeline"]

\* _analyze_single_competitor returns the competitor's data
SingleCompetitorReturns ==
    /\ comp.pc = "competitor"
    /\ comp' = AfterCompetitor("analysed")
    /\ UNCHANGED <<rw, ctor, gvs>>
    /\ UNCHANGED storeVars
    /\ UNCHANGED llmVars

\* _analyze_single_competitor raises: the except branch of line 115 stores
\* {"error": ..., "status": "failed"} for the competitor and the loop goes on
SingleCompetitorRaises_Aborts ==
    /\ comp.pc = "competitor"
    /\ comp' = [comp EXCEPT !.pc = "raised",
                            !.outcomes = Append(comp.outcomes, "failed"),
                            !.error = CompetitorAnalysisError("Multiple competitors", "")]
    /\ UNCHANGED <<rw, ctor, gvs>>
    /\ UNCHANGED storeVars
    /\ UNCHANGED llmVars
SingleCompetitorRaises ==
    /\ comp.pc = "competitor"
    /\ comp' = AfterCompetitor("failed")
    /\ UNCHANGED <<rw, ctor, gvs>>
    /\ UNCHANGED storeVars
    /\ UNCHANGED llmVars

\* run_analysis from its start: _validate_config, whose ValueError the
\* except branch of line 120 wraps, then the analyze_competitors call
RunAnalysis(config) ==
    /\ comp.pc \in {"idle", "returned", "raised"}
    /\ LET verdict == validate_config(config)
       IN  IF verdict # "ok"
           THEN comp' = [IdleComp EXCEPT !.op = "pipeline", !.pc = "raised",
                            !.competitors = config.competitors,
                            !.platforms = config.platforms,
                            !.rejected = TRUE,
                            !.error = CompetitorAnalysisError("Pipeline execution", verdict)]
           ELSE comp' = analyze_competitors("pipeline", config.competitors, config.platforms)
    /\ UNCHANGED <<rw, ctor, gvs>>
    /\ UNCHANGED storeVars
    /\ UNCHANGED llmVars

\* the steps of run_analysis after analyze_competitors returned (insights,
\* advanced analysis, recommendations, saving) end with the result dict
PipelineCompletes ==
    /\ comp.pc = "pipeline"
    /\ comp' = [comp EXCEPT !.pc = "returned"]
    /\ UNCHANGED <<rw, ctor, gvs>>
    /\ UNCHANGED storeVars
    /\ UNCHANGED llmVars

\* or one of them raises, and the except branch of line 120 wraps it
PipelineStepRaises ==
    /\ comp.pc = "pipeline"
    /\ comp' = [comp EXCEPT !.pc = "raised",
                            !.error = CompetitorAnalysisError("Pipeline execution", "")]
    /\ UNCHANGED <<rw, ctor, gvs>>
    /\ UNCHANGED storeVars
    /\ UNCHANGED llmVars

InitCompetitor ==
    /\ StoreInit
    /\ LLMIdle
    /\ comp = IdleComp
    /\ rw = <<>>
    /\ ctor = <<>>
    /\ gvs = <<>>

NextCompetitor ==
    \/ \E cs \in CompetitorLists, ps \in PlatformLists : AnalyzeCompetitors(cs, ps)
    \/ SingleCompetitorReturns
    \/ SingleCompetitorRaises
    \/ \E config \in PipelineConfigs : RunAnalysis(config)
    \/ PipelineCompletes
    \/ PipelineStepRaises

SpecCompetitor == InitCompetitor /\ [][NextCompetitor]_vars

----------------------------------------------------------------------------
(* Properties of competitor analysis *)

\* C26: a call whose input validation fails (analyze_competitors without
\* competitors, run_analysis with a configuration _validate_config
\* rejects) raises an exception that is a ValueError.
C26_ValidationRaisesValueError ==
    (comp.pc = "raised" /\ comp.rejected) => "ValueError" \in Bases(comp.error.type)

\* the entry of the last analysis made for competitor c
LastOutcome(c) ==
    LET at == { j \in 1..Len(comp.outcomes) : comp.competitors[j] = c }
    IN  comp.outcomes[CHOOSE j \in at : \A k \in at : k <= j]

----------------------------------------------------------------------------
(* get_vector_store: the module global _vector_store *)

\* coroutines calling get_vector_store() on the one event loop: the task
\* main.py creates at start-up and request handlers
Callers == {"k1", "k2", "k3"}

\* _vector_store is None; stores are numbered from 1 in order of construction
NoStore == 0

\* get_vector_store from the point where get_embedding_model has returned:
\* a FAISSVectorStore is constructed and bound to the global, then
\* initialize() is awaited.  initialize suspends only when the index file
\* exists (_load_index reads it in a worker thread); otherwise it completes
\* at once and the caller returns the global.
ConstructStore(g, k) ==
    LET id == Len(g.instances) + 1
        loads == g.file_exists
    IN  [g EXCEPT !.instances = Append(g.instances, [initialized |-> ~loads]),
                  !.global = id,
                  !.mine = [g.mine EXCEPT ![k] = id],
                  !.pc = [g.pc EXCEPT ![k] = IF loads THEN "initialize" ELSE "returned"],
                  !.got = [g.got EXCEPT ![k] = IF loads THEN NoStore ELSE id],
                  !.got_initialized = [g.got_initialized EXCEPT ![k] = ~loads]]

\* a call of get_vector_store(): with the global set it returns the global
\* at once; otherwise it awaits get_embedding_model(), which suspends only
\* for the caller that creates the embedding model
GetVectorStore(k) ==
    /\ gvs.pc[k] \in {"idle", "returned", "raised"}
    /\ gvs' = IF gvs.global # NoStore
              THEN [gvs EXCEPT !.pc = [gvs.pc EXCEPT ![k] = "returned"],
                               !.got = [gvs.got EXCEPT ![k] = gvs.global],
                               !.got_initialized = [gvs.got_initialized EXCEPT ![k] =
                                                       gvs.instances[gvs.global].initialized]]
              ELSE IF gvs.embedding = "none"
              THEN [gvs EXCEPT !.embedding = "loading",
                               !.pc = [gvs.pc EXCEPT ![k] = "embedding"],
                               !.got = [gvs.got EXCEPT ![k] = NoStore],
                               !.got_initialized = [gvs.got_initialized EXCEPT ![k] = FALSE]]
              ELSE ConstructStore(gvs, k)
    /\ UNCHANGED <<rw, ctor, comp>>
    /\ UNCHANGED storeVars
    /\ UNCHANGED llmVars

\* EmbeddingModel.initialize completes and the caller that awaited it goes on
EmbeddingModelReady(k) ==
    /\ gvs.pc[k] = "embedding"
    /\ gvs' = ConstructStore([gvs EXCEPT !.embedding = "ready"], k)
    /\ UNCHANGED <<rw, ctor, comp>>
    /\ UNCHANGED storeVars
    /\ UNCHANGED llmVars

\* EmbeddingModel.initialize raises EmbeddingError; the global embedding
\* model stays bound
EmbeddingModelFails(k) ==
    /\ gvs.pc[k] = "embedding"
    /\ gvs' = [gvs EXCEPT !.embedding = "failed",
                          !.pc = [gvs.pc EXCEPT ![k] = "raised"]]
    /\ UNCHANGED <<rw, ctor, comp>>
    /\ UNCHANGED storeVars
    /\ UNCHANGED llmVars

\* the awaited initialize() of the caller's store completes; the caller
\* returns what the global is bound to now
InitializeCompletes(k) ==
    /\ gvs.pc[k] = "initialize"
    /\ LET done == [gvs.instances EXCEPT ![gvs.mine[k]].initialized = TRUE]
       IN  gvs' = [gvs EXCEPT !.instances = done,
                              !.pc = [gvs.pc EXCEPT ![k] = "returned"],
                              !.got = [gvs.got EXCEPT ![k] = gvs.global],
                              !.got_initialized = [gvs.got_initialized EXCEPT ![k] =
                                                      done[gvs.global].initialized]]
    /\ UNCHANGED <<rw, ctor, comp>>
    /\ UNCHANGED storeVars
    /\ UNCHANGED llmVars

\* the awaited initialize() raises VectorDatabaseError; the global stays
\* bound to the store
InitializeFails(k) ==
    /\ gvs.pc[k] = "initialize"
    /\ gvs' = [gvs EXCEPT !.pc = [gvs.pc EXCEPT ![k] = "raised"]]
    /\ UNCHANGED <<rw, ctor, comp>>
    /\ UNCHANGED storeVars
    /\ UNCHANGED llmVars

InitGlobal ==
    /\ StoreInit
    /\ LLMIdle
    /\ gvs \in [global : {NoStore}, instances : {<<>>}, embedding : {"none"},
                file_exists : BOOLEAN,
                pc : {[k \in Callers |-> "idle"]},
                mine : {[k \in Callers |-> NoStore]},
                got : {[k \in Callers |-> NoStore]},
                got_initialized : {[k \in Callers |-> FALSE]}]
    /\ rw = <<>>
    /\ ctor = <<>>
    /\ comp = <<>>

NextGlobal ==
    \/ \E k \in Callers : GetVectorStore(k)
    \/ \E k \in Callers : EmbeddingModelReady(k)
    \/ \E k \in Callers : EmbeddingModelFails(k)
    \/ \E k \in Callers : InitializeCompletes(k)
    \/ \E k \in Callers : InitializeFails(k)

SpecGlobal == InitGlobal /\ [][NextGlobal]_vars

----------------------------------------------------------------------------
(* Properties of get_vector_store *)

\* C29: get_vector_store yields a single process-wide store: at most one
\* instance is ever constructed, all callers receive the same instance, and
\* no caller receives an instance whose initialization has not completed.
C29_SingleInitializedStore ==
    /\ Len(gvs.instances) <= 1
    /\ \A j, k \in Callers :
           (gvs.pc[j] = "returned" /\ gvs.pc[k] = "returned") => gvs.got[j] = gvs.got[k]
    /\ \A k \in Callers : gvs.pc[k] = "returned" => gvs.got_initialized[k]

====
